---- MODULE Spec2Model ----
(***************************************************************************)
(* Selection-state logic of the Open-Meteo maps demo (src/App.tsx, carried *)
(* in src/vite.config.ts from line 82 on): the App component's state, its  *)
(* init effect, the three select handlers and the derived variable/level   *)
(* lists.                                                                  *)
(*                                                                         *)
(* Strings are sequences of one-character strings, so that includes(),     *)
(* startsWith() and the three patterns imported from                       *)
(* @openmeteo/mapbox-layer are computed on the characters.                 *)
(***************************************************************************)
EXTENDS Integers, Sequences, FiniteSets, TLC

(***************************************************************************)
(* Bounds                                                                  *)
(***************************************************************************)
\* longest variable list a metadata document of the state machine carries
MaxVars == 2
\* longest variable list of a document in the round-trip specification
MaxTripVars == 2
\* longest variable list handed to the classification (variableList,
\* levelGroupsList) in the classification specification
MaxListLen == 3
\* longest variable list of a document in the clock specification
MaxClockVars == 1
\* most evaluations of the module body (the first load and the hot reloads)
MaxEvaluations == 3
\* longest variable list of a document in the race specification
MaxRaceVars == 1
\* most handleDomainChange calls awaiting their fetch at once in the race
\* specification
MaxInflight == 2

(***************************************************************************)
(* Strings                                                                 *)
(***************************************************************************)
Range(s) == {s[i] : i \in 1..Len(s)}

Min(S) == CHOOSE m \in S : \A n \in S : m <= n

\* String.prototype.includes
Includes(s, sub) ==
  \E i \in 0..(Len(s) - Len(sub)) : SubSeq(s, i + 1, i + Len(sub)) = sub

\* String.prototype.startsWith
StartsWith(s, p) == Len(p) <= Len(s) /\ SubSeq(s, 1, Len(p)) = p

\* the rest of s from (1-based) position i on
From(s, i) == SubSeq(s, i, Len(s))

Digits == {"0", "1", "2", "3", "4", "5", "6", "7", "8", "9"}

us == <<"_">>
w_temperature == <<"t", "e", "m", "p", "e", "r", "a", "t", "u", "r", "e">>
w_wind == <<"w", "i", "n", "d">>
w_rain == <<"r", "a", "i", "n">>
w_gusts == <<"g", "u", "s", "t", "s">>
s_2m == <<"2", "m">>
s_10m == <<"1", "0", "m">>
s_100m == <<"1", "0", "0", "m">>
s_850hPa == <<"8", "5", "0", "h", "P", "a">>
s_v_ == <<"_", "v", "_">>
s_direction == <<"_", "d", "i", "r", "e", "c", "t", "i", "o", "n">>
s_v_component == <<"v", "_", "c", "o", "m", "p", "o", "n", "e", "n", "t">>

\* JavaScript's undefined (what meta.variables[0] is for an empty list) and
\* null (what getLevelPrefix returns without a match); neither is a string
Undefined == <<"undefined">>
Null == [null |-> TRUE]
NoPrefix == <<>>

(***************************************************************************)
(* Variable names the metadata service publishes                           *)
(***************************************************************************)
temperature_2m == w_temperature \o us \o s_2m
temperature_10m == w_temperature \o us \o s_10m
temperature_100m == w_temperature \o us \o s_100m
temperature_850hPa == w_temperature \o us \o s_850hPa
wind_10m == w_wind \o us \o s_10m
gusts_10m == w_gusts \o us \o s_10m
temperature_max == w_temperature \o us \o <<"m", "a", "x">>

\* the names the classification is checked on
VariableNames ==
  { temperature_2m, temperature_10m, temperature_100m, temperature_850hPa,
    w_temperature, temperature_max, w_rain, wind_10m, gusts_10m }

\* the names the documents of the state machine are made of
MachineNames ==
  { temperature_2m, temperature_10m, temperature_850hPa,
    w_temperature, w_rain, wind_10m }

\* the names the documents of the round-trip specification are made of
TripNames == {temperature_2m, temperature_10m, w_rain}

\* the names the documents of the race specification are made of
RaceNames == {temperature_2m, w_rain}

(***************************************************************************)
(* The patterns of @openmeteo/mapbox-layer.  The application imports them  *)
(* and only calls test() and match() on them.  They are independent of     *)
(* each other: LEVEL_REGEX looks for a numeric level with a unit,          *)
(* LEVEL_PREFIX for one of the level-group prefixes followed by "_"; both  *)
(* search anywhere in the name.  The names above cover the four outcomes   *)
(* (level-bearing or not, with or without a prefix).                       *)
(***************************************************************************)
\* the prefixes that name a level group
levelGroupVariables == {w_temperature, w_wind}

LevelUnits == {<<"h", "P", "a">>, <<"m">>, <<"c", "m">>, <<"_", "t", "o", "_">>}

\* LEVEL_REGEX.test: digits followed by a unit, anywhere in the name
LEVEL_REGEX(s) ==
  \E i \in 1..Len(s) :
    s[i] \in Digits /\ \E u \in LevelUnits : StartsWith(From(s, i + 1), u)

\* positions at which LEVEL_PREFIX matches: a group prefix followed by "_"
PrefixMatches(s) ==
  {i \in 1..Len(s) : \E w \in levelGroupVariables : StartsWith(From(s, i), w \o us)}

\* s.match(LEVEL_PREFIX)?.groups?.prefix: the prefix of the leftmost match
LEVEL_PREFIX(s) ==
  IF PrefixMatches(s) = {} THEN NoPrefix
  ELSE LET i == Min(PrefixMatches(s))
       IN CHOOSE w \in levelGroupVariables : StartsWith(From(s, i), w \o us)

getLevelPrefix(v) == LEVEL_PREFIX(v)

hasLevels(v) == LEVEL_REGEX(v)


(***************************************************************************)
(* Library constants and the metadata service                              *)
(***************************************************************************)
\* the domains the domain <select> offers
domainOptions == {"dwd_icon", "dwd_icon_d2", "gfs_global"}

\* display labels known to the library; any other name is its own label
variableOptions == {[value |-> temperature_2m, label |-> <<"T", " ", "2", "m">>]}

\* reference_time values a latest.json can carry: the fields of an ISO-8601
\* instant, <<year, month, day, hour, minute>>, in UTC
ReferenceTimes == {<<2024, 5, 1, 6, 0>>, <<2024, 5, 1, 12, 0>>}

\* the lists of distinct names of length at most n
RECURSIVE ListsUpTo(_, _)
ListsUpTo(n, names) ==
  IF n = 0 THEN {<<>>}
  ELSE LET shorter == ListsUpTo(n - 1, names)
           longest == {l \in shorter : Len(l) = n - 1}
       IN shorter \cup
          {Append(p[1], p[2]) :
             p \in {q \in longest \X names : q[2] \notin Range(q[1])}}

\* the DomainMetaDataJson documents a fetch can resolve to
Documents(n, names) ==
  [reference_time : ReferenceTimes, variables : ListsUpTo(n, names)]

MachineDocuments == Documents(MaxVars, MachineNames)

ClassifyDocuments == Documents(MaxListLen, VariableNames)

TripDocuments == Documents(MaxTripVars, TripNames)

ClockDocuments == Documents(MaxClockVars, TripNames)

RaceDocuments == Documents(MaxRaceVars, RaceNames)

\* the style document the style URL serves
StyleDocument == [version |-> 8]

(***************************************************************************)
(* State of the App component                                              *)
(***************************************************************************)
VARIABLES
  loading,    \* useState(true)
  mapStyle,   \* useState(null)
  domain,     \* useState('dwd_icon')
  variable,   \* useState('temperature_2m')
  metaJson,   \* useState(null)
  modelRun,   \* useState(null)
  initPc,     \* where the init effect's async function stands
  inflight,   \* the handleDomainChange calls awaiting their fetch
  last,       \* the operation that produced this state, with its inputs
  trail,      \* observer: how far a domain round trip A -> B -> A has come
  clock,      \* what new Date() returned when the component mounted
  selectedTime, \* useState(() => the hour after now)
  mapRef,     \* the map instance, once there is one
  omSource,   \* the URL of the map's 'omRasterSource', once there is one
  registry    \* maplibregl's protocol handlers, and how the module body fared

vars == <<loading, mapStyle, domain, variable, metaJson, modelRun, initPc, inflight,
          last, trail, clock, selectedTime, mapRef, omSource, registry>>

\* new Date(meta.reference_time): the UTC fields of the parsed instant
NewDate(reference_time) ==
  [year |-> reference_time[1], month |-> reference_time[2], day |-> reference_time[3],
   hour |-> reference_time[4], minute |-> reference_time[5], second |-> 0, ms |-> 0]

(***************************************************************************)
(* Dates                                                                   *)
(***************************************************************************)
getUTCFullYear(d) == d.year
\* months count from 0
getUTCMonth(d) == d.month - 1
getUTCDate(d) == d.day
getUTCHours(d) == d.hour
getUTCMinutes(d) == d.minute

IsLeapYear(y) == (y % 4 = 0 /\ y % 100 # 0) \/ y % 400 = 0

DaysInMonth(y, m) ==
  IF m = 2 THEN (IF IsLeapYear(y) THEN 29 ELSE 28)
  ELSE IF m \in {4, 6, 9, 11} THEN 30 ELSE 31

\* Date.prototype.setUTCHours(hours, 0, 0, 0) for hours in 0..47: an hour
\* past 23 carries into the day, the month and the year
setUTCHours(d, hours) ==
  LET carry == hours >= 24
      lastDay == d.day = DaysInMonth(d.year, d.month)
      lastMonth == d.month = 12
  IN [year |-> IF carry /\ lastDay /\ lastMonth THEN d.year + 1 ELSE d.year,
      month |-> IF carry /\ lastDay THEN (IF lastMonth THEN 1 ELSE d.month + 1)
                ELSE d.month,
      day |-> IF carry THEN (IF lastDay THEN 1 ELSE d.day + 1) ELSE d.day,
      hour |-> IF carry THEN hours - 24 ELSE hours,
      minute |-> 0, second |-> 0, ms |-> 0]

\* variant of selectedTimeInitializer that keeps the current hour
selectedTimeInitializer_SameHour(now) == setUTCHours(now, getUTCHours(now))

\* the initializer of the selectedTime state: the hour after now, on the hour
selectedTimeInitializer(now) == setUTCHours(now, getUTCHours(now) + 1)

\* the instants new Date() can return when the component mounts
StartupInstants ==
  {[year |-> 2024, month |-> 5, day |-> 1, hour |-> 6, minute |-> 17,
    second |-> 33, ms |-> 250],
   [year |-> 2024, month |-> 5, day |-> 1, hour |-> 6, minute |-> 0,
    second |-> 0, ms |-> 0],
   [year |-> 2024, month |-> 10, day |-> 9, hour |-> 9, minute |-> 59,
    second |-> 59, ms |-> 999],
   [year |-> 2024, month |-> 12, day |-> 31, hour |-> 23, minute |-> 30,
    second |-> 0, ms |-> 1],
   [year |-> 2024, month |-> 2, day |-> 28, hour |-> 23, minute |-> 10,
    second |-> 0, ms |-> 0],
   [year |-> 2023, month |-> 2, day |-> 28, hour |-> 23, minute |-> 10,
    second |-> 0, ms |-> 0]}

\* the instant new Date() returns in the specifications that fix it
MountInstant ==
  [year |-> 2024, month |-> 5, day |-> 1, hour |-> 6, minute |-> 17,
   second |-> 33, ms |-> 250]

(***************************************************************************)
(* URLs                                                                    *)
(***************************************************************************)
\* the characters of a domain identifier
Chars(d) ==
  CASE d = "dwd_icon" -> <<"d", "w", "d", "_", "i", "c", "o", "n">>
    [] d = "dwd_icon_d2" -> <<"d", "w", "d", "_", "i", "c", "o", "n", "_", "d", "2">>
    [] d = "gfs_global" -> <<"g", "f", "s", "_", "g", "l", "o", "b", "a", "l">>

DigitChars == <<"0", "1", "2", "3", "4", "5", "6", "7", "8", "9">>

\* String(num) for a non-negative integer
RECURSIVE String(_)
String(num) ==
  IF num < 10 THEN <<DigitChars[num + 1]>>
  ELSE String(num \div 10) \o <<DigitChars[(num % 10) + 1]>>

\* String.prototype.padStart(targetLength, '0')
RECURSIVE padStart(_, _)
padStart(s, targetLength) ==
  IF Len(s) >= targetLength THEN s ELSE padStart(<<"0">> \o s, targetLength)

\* variant of pad that does not pad
pad_Unpadded(num) == String(num)

pad(num) == padStart(String(num), 2)

fmtModelRun(run) ==
  String(getUTCFullYear(run)) \o <<"/">> \o pad(getUTCMonth(run) + 1) \o <<"/">>
    \o pad(getUTCDate(run)) \o <<"/">> \o pad(getUTCHours(run))
    \o pad(getUTCMinutes(run)) \o <<"Z">>

fmtSelectedTime(time) ==
  String(getUTCFullYear(time)) \o <<"-">> \o pad(getUTCMonth(time) + 1) \o <<"-">>
    \o pad(getUTCDate(time)) \o <<"T">> \o pad(getUTCHours(time))
    \o pad(getUTCMinutes(time))

s_dwd_icon ==
  <<"d", "w", "d", "_", "i", "c", "o", "n">>

servert ==
  <<"h", "t", "t", "p", "s", ":", "/", "/", "s", "3", ".", "s", "e", "r",
    "v", "e", "r", "t", ".", "c", "h">>

openMeteo ==
  <<"h", "t", "t", "p", "s", ":", "/", "/", "m", "a", "p", "-", "t", "i",
    "l", "e", "s", ".", "o", "p", "e", "n", "-", "m", "e", "t", "e", "o",
    ".", "c", "o", "m">>

s_data_spatial ==
  <<"/", "d", "a", "t", "a", "_", "s", "p", "a", "t", "i", "a", "l", "/">>

s_om_variable ==
  <<".", "o", "m", "?", "v", "a", "r", "i", "a", "b", "l", "e", "=">>

s_latest_json ==
  <<"/", "l", "a", "t", "e", "s", "t", ".", "j", "s", "o", "n">>

s_om_protocol ==
  <<"o", "m", ":", "/", "/">>

\* variant of getOMUrl that sends only the domain 'dwd_icon' itself to
\* s3.servert.ch
getOMUrl_ExactDomain(domainValue, variableValue, run, time) ==
  LET uri == IF Chars(domainValue) = s_dwd_icon THEN servert ELSE openMeteo
  IN uri \o s_data_spatial \o Chars(domainValue) \o <<"/">> \o fmtModelRun(run)
       \o <<"/">> \o fmtSelectedTime(time) \o s_om_variable \o variableValue

getOMUrl(domainValue, variableValue, run, time) ==
  LET uri == IF StartsWith(Chars(domainValue), s_dwd_icon) THEN servert ELSE openMeteo
  IN uri \o s_data_spatial \o Chars(domainValue) \o <<"/">> \o fmtModelRun(run)
       \o <<"/">> \o fmtSelectedTime(time) \o s_om_variable \o variableValue

getStyleUrl ==
  <<"h", "t", "t", "p", "s", ":", "/", "/", "m", "a", "p", "t", "i", "l",
    "e", "r", ".", "s", "e", "r", "v", "e", "r", "t", ".", "n", "l", "/",
    "s", "t", "y", "l", "e", "s", "/", "m", "i", "n", "i", "m", "a", "l",
    "-", "w", "o", "r", "l", "d", "-", "m", "a", "p", "s", "/", "s", "t",
    "y", "l", "e", ".", "j", "s", "o", "n">>

\* the URL fetchMetaData(domainValue) requests
fetchMetaDataUrl(domainValue) ==
  LET uri == IF StartsWith(Chars(domainValue), s_dwd_icon) THEN servert ELSE openMeteo
  IN uri \o s_data_spatial \o Chars(domainValue) \o s_latest_json

\* the observer at rest
NoTrail == [stage |-> "idle", domain |-> "", variable |-> <<>>, metaJson |-> Null]

Snapshot == [domain |-> domain, variable |-> variable,
             metaJson |-> metaJson, modelRun |-> modelRun]

(***************************************************************************)
(* Derived lists (recomputed on every render)                              *)
(***************************************************************************)
\* variant of variableListLoop that lists a level-bearing name without a
\* prefix verbatim
RECURSIVE variableListLoop_KeepsUnprefixed(_, _)
variableListLoop_KeepsUnprefixed(rest, variables) ==
  IF rest = <<>> THEN variables
  ELSE LET mjVariable == Head(rest)
           prefix == getLevelPrefix(mjVariable)
       IN variableListLoop_KeepsUnprefixed(Tail(rest),
            IF hasLevels(mjVariable) /\ prefix # NoPrefix
            THEN IF prefix \notin Range(variables)
                 THEN Append(variables, prefix)
                 ELSE variables
            ELSE Append(variables, mjVariable))

\* the loop of variableList over the names still to visit
RECURSIVE variableListLoop(_, _)
variableListLoop(rest, variables) ==
  IF rest = <<>> THEN variables
  ELSE LET mjVariable == Head(rest)
           prefix == getLevelPrefix(mjVariable)
       IN variableListLoop(Tail(rest),
            IF hasLevels(mjVariable)
            THEN IF prefix # NoPrefix /\ prefix \notin Range(variables)
                 THEN Append(variables, prefix)
                 ELSE variables
            ELSE Append(variables, mjVariable))

\* variableList(): the entries of the variable <select>
variableList ==
  IF metaJson = Null THEN <<>> ELSE variableListLoop(metaJson.variables, <<>>)

\* variableOptions.find((v) => v.value === mjVariable) || {value, label}
varOption(mjVariable) ==
  IF \E o \in variableOptions : o.value = mjVariable
  THEN CHOOSE o \in variableOptions : o.value = mjVariable
  ELSE [value |-> mjVariable, label |-> mjVariable]

NoGroups == [prefix \in {} |-> <<>>]

\* variant of levelGroupsLoop that omits the hasLevels test: every name with
\* a prefix is put in a group
RECURSIVE levelGroupsLoop_AnyPrefixed(_, _)
levelGroupsLoop_AnyPrefixed(rest, groups) ==
  IF rest = <<>> THEN groups
  ELSE LET mjVariable == Head(rest)
           prefix == getLevelPrefix(mjVariable)
       IN levelGroupsLoop_AnyPrefixed(Tail(rest),
            IF prefix # NoPrefix
            THEN IF prefix \in DOMAIN groups
                 THEN [groups EXCEPT ![prefix] = Append(@, varOption(mjVariable))]
                 ELSE [k \in DOMAIN groups \cup {prefix} |->
                         IF k = prefix THEN <<varOption(mjVariable)>> ELSE groups[k]]
            ELSE groups)

\* the loop of levelGroupsList over the names still to visit
RECURSIVE levelGroupsLoop(_, _)
levelGroupsLoop(rest, groups) ==
  IF rest = <<>> THEN groups
  ELSE LET mjVariable == Head(rest)
           prefix == getLevelPrefix(mjVariable)
       IN levelGroupsLoop(Tail(rest),
            IF hasLevels(mjVariable) /\ prefix # NoPrefix
            THEN IF prefix \in DOMAIN groups
                 THEN [groups EXCEPT ![prefix] = Append(@, varOption(mjVariable))]
                 ELSE [k \in DOMAIN groups \cup {prefix} |->
                         IF k = prefix THEN <<varOption(mjVariable)>> ELSE groups[k]]
            ELSE groups)

\* variant of levelGroupsList whose loop starts at the second name
levelGroupsList_SkipsFirst ==
  IF metaJson = Null THEN NoGroups
  ELSE levelGroupsLoop(SubSeq(metaJson.variables, 2, Len(metaJson.variables)), NoGroups)

\* levelGroupsList(): prefix -> the level entries of that group
levelGroupsList ==
  IF metaJson = Null THEN NoGroups ELSE levelGroupsLoop(metaJson.variables, NoGroups)

\* currentLevelGroup(): the group of the selected variable, or none
currentLevelGroup ==
  LET prefix == getLevelPrefix(variable)
  IN IF prefix # NoPrefix /\ prefix \in levelGroupVariables THEN prefix ELSE NoPrefix

\* currentLevels(): the entries of the level <select>
currentLevels ==
  IF currentLevelGroup # NoPrefix /\ currentLevelGroup \in DOMAIN levelGroupsList
  THEN levelGroupsList[currentLevelGroup]
  ELSE <<>>

\* rendering calls getLevelPrefix(variable): variable.match throws on
\* undefined, and the component tree is unmounted
Mounted == variable # Undefined

\* no overlay source, and null where a URL is expected
NoSource == <<>>

\* the overlay URL of this render
omUrl ==
  IF modelRun # Null
  THEN s_om_protocol \o getOMUrl(domain, variable, modelRun, selectedTime)
  ELSE NoSource

\* the map instance of the <Map> element
MapElement == [status |-> "loaded", onLoad |-> Null]

\* the render that follows an operation: selectedTime has no setter, <Map>
\* is rendered once mapStyle is set and <Source url={omUrl}> inside it
\* once omUrl is
Rendered ==
  /\ registry' = registry
  /\ clock' = clock
  /\ selectedTime' = selectedTime
  /\ mapRef' = IF Mounted' /\ mapStyle' # Null THEN MapElement ELSE Null
  /\ omSource' = IF Mounted' /\ mapStyle' # Null THEN omUrl' ELSE NoSource

\* options of the variable <select>
variableSelectOptions ==
  {v \in Range(variableList) : ~Includes(v, s_v_) /\ ~Includes(v, s_direction)}

\* value={levelGroup || variable}
variableSelectValue ==
  IF currentLevelGroup # NoPrefix THEN currentLevelGroup ELSE variable

\* options of the level <select>
levelSelectOptions ==
  {l.value : l \in {m \in Range(currentLevels) :
      ~Includes(m.value, s_v_component) /\ ~Includes(m.value, s_direction)}}

(***************************************************************************)
(* Protocol registration at module level                                   *)
(***************************************************************************)
\* the handlers the module registers, named by what they call
mapterhornHandler == "pmtilesProtocol.tile"
omHandler == "omProtocol"

\* no scheme registered, the module body not yet evaluated
NoRegistry == [protocols |-> <<>>, error |-> FALSE, evaluations |-> 0]

IsRegistered(protocols, scheme) ==
  \E i \in 1..Len(protocols) : protocols[i].scheme = scheme

\* maplibregl.addProtocol(scheme, handler): a new scheme is registered; for
\* a registered scheme the library either replaces the handler or throws
\* (the catch blocks expect the latter), and the code must do with both
addProtocol(protocols, scheme, handler) ==
  IF ~IsRegistered(protocols, scheme)
  THEN {[protocols |-> Append(protocols, [scheme |-> scheme, handler |-> handler]),
         threw |-> FALSE]}
  ELSE {[protocols |-> [i \in 1..Len(protocols) |->
                          IF protocols[i].scheme = scheme
                          THEN [scheme |-> scheme, handler |-> handler]
                          ELSE protocols[i]],
         threw |-> FALSE],
        [protocols |-> protocols, threw |-> TRUE]}

\* variant of tryAddProtocol without try and catch
tryAddProtocol_Unguarded(protocols, scheme, handler) ==
  addProtocol(protocols, scheme, handler)

\* try { maplibregl.addProtocol(scheme, handler) } catch { }
tryAddProtocol(protocols, scheme, handler) ==
  {[outcome EXCEPT !.threw = FALSE] : outcome \in addProtocol(protocols, scheme, handler)}

\* the module body is evaluated: the two registrations in order; a throw
\* that is not caught ends the evaluation
evaluateModule(reg) ==
  UNION {IF first.threw
         THEN {[protocols |-> first.protocols, error |-> TRUE,
                evaluations |-> reg.evaluations + 1]}
         ELSE {[protocols |-> second.protocols, error |-> second.threw,
                evaluations |-> reg.evaluations + 1] :
                 second \in tryAddProtocol(first.protocols, "om", omHandler)} :
           first \in tryAddProtocol(reg.protocols, "mapterhorn", mapterhornHandler)}

\* hot module replacement evaluates the module body again; the component
\* keeps its state
HotReload ==
  /\ registry.evaluations < MaxEvaluations
  /\ ~registry.error
  /\ registry' \in evaluateModule(registry)
  /\ last' = [op |-> "HotReload", domain |-> domain, variable |-> variable]
  /\ UNCHANGED <<loading, mapStyle, domain, variable, metaJson, modelRun, initPc,
                 inflight, trail, clock, selectedTime, mapRef, omSource>>

(***************************************************************************)
(* Init effect                                                             *)
(***************************************************************************)
Event(op) == [op |-> op, domain |-> domain, variable |-> variable]

\* useState('dwd_icon') and useState('temperature_2m')
initialDomain == "dwd_icon"
initialVariable == temperature_2m

\* the component mounts at the instant now
Mount(now) ==
  /\ loading = TRUE
  /\ mapStyle = Null
  /\ domain = initialDomain
  /\ variable = initialVariable
  /\ metaJson = Null
  /\ modelRun = Null
  /\ initPc = "meta"
  /\ inflight = <<>>
  /\ last = Event("mount")
  /\ trail = NoTrail
  /\ clock = now
  /\ selectedTime = selectedTimeInitializer(now)
  /\ mapRef = Null
  /\ omSource = NoSource
  /\ registry \in evaluateModule(NoRegistry)

Init == Mount(MountInstant)

\* the component mounts at any of the startup instants
InitClock == \E now \in StartupInstants : Mount(now)

\* fetchMetaData(domain) resolves: setMetaJson, setModelRun, then the style
\* fetch is issued
InitMetaResolve(meta) ==
  /\ initPc = "meta"
  /\ metaJson' = meta
  /\ modelRun' = NewDate(meta.reference_time)
  /\ initPc' = "style"
  /\ last' = [op |-> "InitMetaResolve", domain |-> domain, variable |-> variable,
              meta |-> meta]
  /\ UNCHANGED <<loading, mapStyle, domain, variable, inflight>>

\* fetchMetaData(domain) throws (network error or !response.ok)
InitMetaReject ==
  /\ initPc = "meta"
  /\ loading' = FALSE
  /\ initPc' = "done"
  /\ last' = Event("InitMetaReject")
  /\ UNCHANGED <<mapStyle, domain, variable, metaJson, modelRun, inflight>>

\* the style fetch and its json() resolve
InitStyleResolve ==
  /\ initPc = "style"
  /\ mapStyle' = StyleDocument
  /\ loading' = FALSE
  /\ initPc' = "done"
  /\ last' = Event("InitStyleResolve")
  /\ UNCHANGED <<domain, variable, metaJson, modelRun, inflight>>

\* the style fetch or its json() throws
InitStyleReject ==
  /\ initPc = "style"
  /\ loading' = FALSE
  /\ initPc' = "done"
  /\ last' = Event("InitStyleReject")
  /\ UNCHANGED <<mapStyle, domain, variable, metaJson, modelRun, inflight>>

\* the URLs of the requests awaiting their response: the init effect's
\* fetchMetaData(domain) and style fetch, then the handleDomainChange calls'
pendingFetches ==
  (IF initPc = "meta" THEN <<fetchMetaDataUrl(initialDomain)>>
   ELSE IF initPc = "style" THEN <<getStyleUrl>>
   ELSE <<>>)
  \o [i \in 1..Len(inflight) |-> inflight[i].url]

(***************************************************************************)
(* Domain change                                                           *)
(***************************************************************************)
\* variant of domainSelectEnabled without disabled={loading}
domainSelectEnabled_WhileLoading == Mounted

\* the domain <select> is enabled
domainSelectEnabled == Mounted /\ ~loading

\* handleDomainChange up to its await: setLoading(true), setDomain(newDomain)
\* and the fetch is issued; the closure keeps the variable of this render
handleDomainChange(newDomain) ==
  /\ loading' = TRUE
  /\ domain' = newDomain
  /\ inflight' = Append(inflight,
       [newDomain |-> newDomain, variable |-> variable, before |-> Snapshot,
        url |-> fetchMetaDataUrl(newDomain)])
  /\ last' = [op |-> "handleDomainChange", domain |-> newDomain, variable |-> variable]
  /\ UNCHANGED <<mapStyle, variable, metaJson, modelRun, initPc>>

\* variant of newVariable without the prefix scan
newVariable_FirstEntry(current, meta) ==
  IF meta.variables = <<>> THEN Undefined ELSE meta.variables[1]

\* lines 377-386: the variable chosen when the document lacks the current one
newVariable(current, meta) ==
  LET prefix == getLevelPrefix(current)
      first == IF meta.variables = <<>> THEN Undefined ELSE meta.variables[1]
      hits == {i \in 1..Len(meta.variables) : StartsWith(meta.variables[i], prefix)}
  IN IF prefix # NoPrefix /\ hits # {} THEN meta.variables[Min(hits)] ELSE first

\* variant of reconciledVariable without the includes test
reconciledVariable_AlwaysReselect(call, meta) ==
  IF call.variable = Undefined THEN variable
  ELSE newVariable(call.variable, meta)

\* lines 374-388: the variable after the document is replaced; call is the
\* closure of the handleDomainChange call (variable.match throws on
\* undefined, and catch leaves the variable alone)
reconciledVariable(call, meta) ==
  IF call.variable = Undefined THEN variable
  ELSE IF call.variable \in Range(meta.variables) THEN variable
  ELSE newVariable(call.variable, meta)

RemoveAt(s, i) == SubSeq(s, 1, i - 1) \o SubSeq(s, i + 1, Len(s))

\* variant of DomainMetaResolve without setModelRun
DomainMetaResolve_ModelRunKept(i, meta) ==
  /\ i \in 1..Len(inflight)
  /\ LET call == inflight[i]
     IN /\ metaJson' = meta
        /\ variable' = reconciledVariable(call, meta)
        /\ last' = [op |-> "DomainMetaResolve", domain |-> call.newDomain,
                    variable |-> call.variable, meta |-> meta]
  /\ loading' = FALSE
  /\ inflight' = RemoveAt(inflight, i)
  /\ UNCHANGED <<mapStyle, domain, modelRun, initPc>>

\* the fetch of the i-th pending handleDomainChange resolves with meta
DomainMetaResolve(i, meta) ==
  /\ i \in 1..Len(inflight)
  /\ LET call == inflight[i]
     IN /\ metaJson' = meta
        /\ modelRun' = NewDate(meta.reference_time)
        /\ variable' = reconciledVariable(call, meta)
        /\ last' = [op |-> "DomainMetaResolve", domain |-> call.newDomain,
                    variable |-> call.variable, meta |-> meta]
  /\ loading' = FALSE
  /\ inflight' = RemoveAt(inflight, i)
  /\ UNCHANGED <<mapStyle, domain, initPc>>

\* variant of DomainMetaReject without the finally block
DomainMetaReject_LoadingKept(i) ==
  /\ i \in 1..Len(inflight)
  /\ LET call == inflight[i]
     IN last' = [op |-> "DomainMetaReject", domain |-> call.newDomain,
                 variable |-> call.variable]
  /\ inflight' = RemoveAt(inflight, i)
  /\ UNCHANGED <<loading, mapStyle, domain, variable, metaJson, modelRun, initPc>>

\* variant of DomainMetaReject whose catch fetches again
DomainMetaReject_Retries(i) ==
  /\ i \in 1..Len(inflight)
  /\ LET call == inflight[i]
     IN last' = [op |-> "DomainMetaReject", domain |-> call.newDomain,
                 variable |-> call.variable]
  /\ UNCHANGED <<loading, mapStyle, domain, variable, metaJson, modelRun, initPc,
                 inflight>>

\* the fetch of the i-th pending handleDomainChange throws: catch logs,
\* finally clears loading
DomainMetaReject(i) ==
  /\ i \in 1..Len(inflight)
  /\ LET call == inflight[i]
     IN last' = [op |-> "DomainMetaReject", domain |-> call.newDomain,
                 variable |-> call.variable]
  /\ loading' = FALSE
  /\ inflight' = RemoveAt(inflight, i)
  /\ UNCHANGED <<mapStyle, domain, variable, metaJson, modelRun, initPc>>

(***************************************************************************)
(* Variable and level change                                               *)
(***************************************************************************)
\* the variable <select> is enabled
variableSelectEnabled == Mounted /\ ~(loading \/ metaJson = Null)

IsPreferred(value) ==
  Includes(value, s_2m) \/ Includes(value, s_10m) \/ Includes(value, s_100m)

\* variant of defaultLevel without the preference loop
defaultLevel_FirstEntry(levels) == levels[1].value

\* lines 402-409: the default level of a group
defaultLevel(levels) ==
  LET hits == {i \in 1..Len(levels) : IsPreferred(levels[i].value)}
  IN IF hits # {} THEN levels[Min(hits)].value ELSE levels[1].value

handleVariableChange(newSelector) ==
  /\ LET groups == levelGroupsList
     IN variable' = IF newSelector \in DOMAIN groups
                    THEN defaultLevel(groups[newSelector])
                    ELSE newSelector
  /\ last' = [op |-> "handleVariableChange", domain |-> domain, variable |-> newSelector]
  /\ UNCHANGED <<loading, mapStyle, domain, metaJson, modelRun, initPc, inflight>>

\* variant of levelSelectEnabled without disabled={loading}
levelSelectEnabled_WhileLoading == Mounted /\ Len(currentLevels) > 0

\* the level <select> is rendered and enabled
levelSelectEnabled == Mounted /\ Len(currentLevels) > 0 /\ ~loading

\* variant of handleLevelChange that ignores a name the document lacks
handleLevelChange_MembersOnly(newLevel) ==
  /\ variable' = IF metaJson # Null /\ newLevel \in Range(metaJson.variables)
                 THEN newLevel ELSE variable
  /\ last' = [op |-> "handleLevelChange", domain |-> domain, variable |-> newLevel]
  /\ UNCHANGED <<loading, mapStyle, domain, metaJson, modelRun, initPc, inflight>>

handleLevelChange(newLevel) ==
  /\ variable' = newLevel
  /\ last' = [op |-> "handleLevelChange", domain |-> domain, variable |-> newLevel]
  /\ UNCHANGED <<loading, mapStyle, domain, metaJson, modelRun, initPc, inflight>>

(***************************************************************************)
(* The application driven through its controls                             *)
(***************************************************************************)
\* a <select> fires onChange when an option other than the one shown is
\* picked
UserChangesDomain ==
  \E newDomain \in domainOptions :
    /\ domainSelectEnabled
    /\ newDomain # domain
    /\ handleDomainChange(newDomain)

UserChangesVariable ==
  \E newSelector \in variableSelectOptions :
    /\ variableSelectEnabled
    /\ newSelector # variableSelectValue
    /\ handleVariableChange(newSelector)

UserChangesLevel ==
  \E newLevel \in levelSelectOptions :
    /\ levelSelectEnabled
    /\ newLevel # variable
    /\ handleLevelChange(newLevel)

(***************************************************************************)
(* The App component of src/unnamed/part_000: the same state and handlers  *)
(* without mapStyle; the init effect creates the map itself, the map's     *)
(* 'load' handler adds the overlay source and clears loading, and an       *)
(* effect hands later URLs to the source                                   *)
(***************************************************************************)
\* the style fetch and its json() resolve: the map is created, kept in
\* mapRef, and the 'load' handler is registered with the domain and variable
\* of the mounting render and the referenceTime of initMap
initMapStyleResolve ==
  /\ initPc = "style"
  /\ mapRef' = [status |-> "created",
                onLoad |-> [domain |-> initialDomain, variable |-> initialVariable,
                            referenceTime |-> modelRun]]
  /\ initPc' = "done"
  /\ last' = Event("initMapStyleResolve")
  /\ UNCHANGED <<loading, mapStyle, domain, variable, metaJson, modelRun, inflight,
                 trail, clock, selectedTime, omSource, registry>>

\* the map fires 'load': addSource with the URL of the handler's closure,
\* setLoading(false)
mapOnLoad ==
  /\ mapRef # Null
  /\ mapRef.status = "created"
  /\ omSource' = s_om_protocol \o getOMUrl(mapRef.onLoad.domain, mapRef.onLoad.variable,
                                          mapRef.onLoad.referenceTime, selectedTime)
  /\ loading' = FALSE
  /\ mapRef' = [mapRef EXCEPT !.status = "loaded"]
  /\ last' = Event("mapOnLoad")
  /\ UNCHANGED <<mapStyle, domain, variable, metaJson, modelRun, initPc, inflight,
                 trail, clock, selectedTime, registry>>

\* the map cannot use the document the style URL answered with (the
\* response is not tested for ok): it fires 'error', for which no handler is
\* registered, and never 'load'
mapOnError ==
  /\ mapRef # Null
  /\ mapRef.status = "created"
  /\ mapRef' = [mapRef EXCEPT !.status = "failed"]
  /\ last' = Event("mapOnError")
  /\ UNCHANGED <<loading, mapStyle, domain, variable, metaJson, modelRun, initPc,
                 inflight, trail, clock, selectedTime, omSource, registry>>

\* variant of updateOMLayerChanged whose dependencies lack the variable
updateOMLayerChanged_NoVariable ==
  \/ domain' # domain
  \/ last'.op \in {"InitMetaResolve", "DomainMetaResolve"}

\* updateOMLayer is a new callback after this render: one of its
\* dependencies domain, variable, modelRun changed (setModelRun is always
\* given a new Date)
updateOMLayerChanged ==
  \/ domain' # domain
  \/ variable' # variable
  \/ last'.op \in {"InitMetaResolve", "DomainMetaResolve"}

\* the render that follows an operation and its effect: updateOMLayer runs
\* when it changed and sets the URL of the source if the map, the model run
\* and the source are there; unmounting removes the map
Effects ==
  /\ registry' = registry
  /\ clock' = clock
  /\ selectedTime' = selectedTime
  /\ mapRef' = mapRef
  /\ omSource' =
       IF ~Mounted' THEN NoSource
       ELSE IF /\ updateOMLayerChanged
               /\ mapRef # Null
               /\ modelRun' # Null
               /\ omSource # NoSource
       THEN omUrl'
       ELSE omSource

(***************************************************************************)
(* Observer of round trips: "away" while the change from A is pending,     *)
(* "there" once B's document (which has the variable) is loaded, "back"    *)
(* while the change to A is pending, "home" once A's original metadata is  *)
(* loaded again.  Any other operation ends the trip.                       *)
(***************************************************************************)
Untracked == trail' = trail

Tracked ==
  trail' =
    IF last'.op = "handleDomainChange"
    THEN IF trail.stage = "there" /\ domain' = trail.domain
         THEN [trail EXCEPT !.stage = "back"]
         ELSE IF metaJson # Null /\ variable \in Range(metaJson.variables)
         THEN [stage |-> "away", domain |-> domain, variable |-> variable,
               metaJson |-> metaJson]
         ELSE NoTrail
    ELSE IF last'.op = "DomainMetaResolve"
    THEN IF trail.stage = "away" /\ trail.variable \in Range(metaJson'.variables)
         THEN [trail EXCEPT !.stage = "there"]
         ELSE IF trail.stage = "back" /\ metaJson' = trail.metaJson
         THEN [trail EXCEPT !.stage = "home"]
         ELSE NoTrail
    ELSE NoTrail

(***************************************************************************)
(* Observer of races: "racing" from a handleDomainChange call made while   *)
(* another is pending, "won" once the last of the pending fetches has      *)
(* resolved, every one of them having resolved.  Any other operation ends  *)
(* the race.                                                               *)
(***************************************************************************)
RaceTracked ==
  trail' =
    IF last'.op = "handleDomainChange"
    THEN IF inflight # <<>> THEN [NoTrail EXCEPT !.stage = "racing"] ELSE NoTrail
    ELSE IF last'.op = "DomainMetaResolve" /\ trail.stage = "racing"
    THEN IF inflight' = <<>> THEN [trail EXCEPT !.stage = "won"] ELSE trail
    ELSE NoTrail

(***************************************************************************)
(* Observer of the document's origin: "fetched" with the domain whose      *)
(* fetch delivered the document the application holds.                     *)
(***************************************************************************)
FetchTracked ==
  trail' =
    IF last'.op \in {"InitMetaResolve", "DomainMetaResolve"}
    THEN [NoTrail EXCEPT !.stage = "fetched", !.domain = last'.domain]
    ELSE trail

(***************************************************************************)
(* The handlers called directly, whatever the controls show                *)
(***************************************************************************)
CallsDomainChange ==
  \E newDomain \in domainOptions :
    /\ Mounted
    /\ Len(inflight) < MaxInflight
    /\ handleDomainChange(newDomain)

CallsLevelChange ==
  \E newLevel \in TripNames :
    /\ Mounted
    /\ handleLevelChange(newLevel)

(***************************************************************************)
(* Specifications                                                          *)
(***************************************************************************)
\* the application, its documents drawn from MachineDocuments
Next ==
  \/ (\E meta \in MachineDocuments : InitMetaResolve(meta)) /\ Untracked /\ Rendered
  \/ InitMetaReject /\ Untracked /\ Rendered
  \/ InitStyleResolve /\ Untracked /\ Rendered
  \/ InitStyleReject /\ Untracked /\ Rendered
  \/ UserChangesDomain /\ Untracked /\ Rendered
  \/ (\E i \in 1..Len(inflight), meta \in MachineDocuments :
        DomainMetaResolve(i, meta)) /\ Untracked /\ Rendered
  \/ (\E i \in 1..Len(inflight) : DomainMetaReject(i)) /\ Untracked /\ Rendered
  \/ UserChangesVariable /\ Untracked /\ Rendered
  \/ UserChangesLevel /\ Untracked /\ Rendered

Spec == Init /\ [][Next]_vars

\* the application in its initial domain, its document drawn from
\* ClassifyDocuments: every variable list up to MaxListLen is classified
NextClassify ==
  \/ (\E meta \in ClassifyDocuments : InitMetaResolve(meta)) /\ Untracked /\ Rendered
  \/ InitMetaReject /\ Untracked /\ Rendered
  \/ InitStyleResolve /\ Untracked /\ Rendered
  \/ InitStyleReject /\ Untracked /\ Rendered
  \/ UserChangesVariable /\ Untracked /\ Rendered
  \/ UserChangesLevel /\ Untracked /\ Rendered

SpecClassify == Init /\ [][NextClassify]_vars

\* the application with the round-trip observer, its documents drawn from
\* TripDocuments
NextTrip ==
  \/ (\E meta \in TripDocuments : InitMetaResolve(meta)) /\ Tracked /\ Rendered
  \/ InitMetaReject /\ Tracked /\ Rendered
  \/ InitStyleResolve /\ Tracked /\ Rendered
  \/ InitStyleReject /\ Tracked /\ Rendered
  \/ UserChangesDomain /\ Tracked /\ Rendered
  \/ (\E i \in 1..Len(inflight), meta \in TripDocuments :
        DomainMetaResolve(i, meta)) /\ Tracked /\ Rendered
  \/ (\E i \in 1..Len(inflight) : DomainMetaReject(i)) /\ Tracked /\ Rendered
  \/ UserChangesVariable /\ Tracked /\ Rendered
  \/ UserChangesLevel /\ Tracked /\ Rendered

SpecTrip == Init /\ [][NextTrip]_vars

\* handleDomainChange called while calls are pending, with the race
\* observer, the documents drawn from RaceDocuments; a state update of an
\* unmounted component is dropped
NextRace ==
  \/ (\E meta \in RaceDocuments : InitMetaResolve(meta)) /\ RaceTracked /\ Rendered
  \/ InitMetaReject /\ RaceTracked /\ Rendered
  \/ InitStyleResolve /\ RaceTracked /\ Rendered
  \/ InitStyleReject /\ RaceTracked /\ Rendered
  \/ CallsDomainChange /\ RaceTracked /\ Rendered
  \/ (\E i \in 1..Len(inflight), meta \in RaceDocuments :
        Mounted /\ DomainMetaResolve(i, meta)) /\ RaceTracked /\ Rendered
  \/ (\E i \in 1..Len(inflight) : Mounted /\ DomainMetaReject(i))
       /\ RaceTracked /\ Rendered

SpecRace == Init /\ [][NextRace]_vars

\* the application of the round-trip specification, and handleLevelChange
\* called with any name
NextLevel ==
  \/ NextTrip
  \/ CallsLevelChange /\ Tracked /\ Rendered

SpecLevel == Init /\ [][NextLevel]_vars

\* the App component of src/unnamed/part_000, its documents drawn from
\* TripDocuments
NextImperative ==
  \/ (\E meta \in TripDocuments : InitMetaResolve(meta)) /\ Untracked /\ Effects
  \/ InitMetaReject /\ Untracked /\ Effects
  \/ initMapStyleResolve
  \/ InitStyleReject /\ Untracked /\ Effects
  \/ mapOnLoad
  \/ mapOnError
  \/ UserChangesDomain /\ Untracked /\ Effects
  \/ (\E i \in 1..Len(inflight), meta \in TripDocuments :
        DomainMetaResolve(i, meta)) /\ Untracked /\ Effects
  \/ (\E i \in 1..Len(inflight) : DomainMetaReject(i)) /\ Untracked /\ Effects
  \/ UserChangesVariable /\ Untracked /\ Effects
  \/ UserChangesLevel /\ Untracked /\ Effects

SpecImperative == Init /\ [][NextImperative]_vars

\* a pending fetch settles: its promise resolves or rejects
FetchSettles ==
  \/ (\E meta \in TripDocuments : InitMetaResolve(meta)) /\ Tracked /\ Rendered
  \/ InitMetaReject /\ Tracked /\ Rendered
  \/ InitStyleResolve /\ Tracked /\ Rendered
  \/ InitStyleReject /\ Tracked /\ Rendered
  \/ (\E i \in 1..Len(inflight), meta \in TripDocuments :
        DomainMetaResolve(i, meta)) /\ Tracked /\ Rendered
  \/ (\E i \in 1..Len(inflight) : DomainMetaReject(i)) /\ Tracked /\ Rendered

\* the application of the round-trip specification where every pending
\* fetch settles
SpecLive == SpecTrip /\ WF_vars(FetchSettles)

\* a pending fetch of the App component of src/unnamed/part_000 settles
FetchSettlesImperative ==
  \/ (\E meta \in TripDocuments : InitMetaResolve(meta)) /\ Untracked /\ Effects
  \/ InitMetaReject /\ Untracked /\ Effects
  \/ initMapStyleResolve
  \/ InitStyleReject /\ Untracked /\ Effects
  \/ (\E i \in 1..Len(inflight), meta \in TripDocuments :
        DomainMetaResolve(i, meta)) /\ Untracked /\ Effects
  \/ (\E i \in 1..Len(inflight) : DomainMetaReject(i)) /\ Untracked /\ Effects

\* the App component of src/unnamed/part_000 where every pending fetch
\* settles and a created map fires 'load' unless it fired 'error'
SpecImperativeLive ==
  SpecImperative /\ WF_vars(FetchSettlesImperative) /\ WF_vars(mapOnLoad)

\* the application mounted at any of the startup instants, its documents
\* drawn from ClockDocuments
NextClock ==
  \/ (\E meta \in ClockDocuments : InitMetaResolve(meta)) /\ Untracked /\ Rendered
  \/ InitMetaReject /\ Untracked /\ Rendered
  \/ InitStyleResolve /\ Untracked /\ Rendered
  \/ InitStyleReject /\ Untracked /\ Rendered
  \/ UserChangesDomain /\ Untracked /\ Rendered
  \/ (\E i \in 1..Len(inflight), meta \in ClockDocuments :
        DomainMetaResolve(i, meta)) /\ Untracked /\ Rendered
  \/ (\E i \in 1..Len(inflight) : DomainMetaReject(i)) /\ Untracked /\ Rendered
  \/ UserChangesVariable /\ Untracked /\ Rendered
  \/ UserChangesLevel /\ Untracked /\ Rendered

SpecClock == InitClock /\ [][NextClock]_vars

\* the application with the observer of the document's origin, its
\* documents drawn from TripDocuments
NextFetched ==
  \/ (\E meta \in TripDocuments : InitMetaResolve(meta)) /\ FetchTracked /\ Rendered
  \/ InitMetaReject /\ FetchTracked /\ Rendered
  \/ InitStyleResolve /\ FetchTracked /\ Rendered
  \/ InitStyleReject /\ FetchTracked /\ Rendered
  \/ UserChangesDomain /\ FetchTracked /\ Rendered
  \/ (\E i \in 1..Len(inflight), meta \in TripDocuments :
        DomainMetaResolve(i, meta)) /\ FetchTracked /\ Rendered
  \/ (\E i \in 1..Len(inflight) : DomainMetaReject(i)) /\ FetchTracked /\ Rendered
  \/ UserChangesVariable /\ FetchTracked /\ Rendered
  \/ UserChangesLevel /\ FetchTracked /\ Rendered

SpecFetched == Init /\ [][NextFetched]_vars

\* the application of the clock specification, and the module reloaded
NextReload ==
  \/ NextClock
  \/ HotReload

SpecReload == Init /\ [][NextReload]_vars

(***************************************************************************)
(* Properties                                                              *)
(***************************************************************************)
Values(levels) == [i \in 1..Len(levels) |-> levels[i].value]

Count(list, x) == Cardinality({i \in 1..Len(list) : list[i] = x})

\* a is b with some entries left out
RECURSIVE IsSubsequence(_, _)
IsSubsequence(a, b) ==
  IF a = <<>> THEN TRUE
  ELSE IF b = <<>> THEN FALSE
  ELSE IF Head(a) = Head(b) THEN IsSubsequence(Tail(a), Tail(b))
  ELSE IsSubsequence(a, Tail(b))

\* C1: whenever a metadata document is loaded, the selected variable is one
\* of the document's variables (after the initial load and after any
\* sequence of domain, variable and level changes)
C1_VariableInDocument ==
  metaJson # Null => variable \in Range(metaJson.variables)

\* C2: when the fetch of a domain change fails, loading is cleared and
\* domain, variable, metadata document and model run are what they were
\* before handleDomainChange was called
C2_FailedFetchRestoresSelection ==
  [][\A i \in 1..Len(inflight) :
       DomainMetaReject(i) => ~loading' /\ Snapshot' = inflight[i].before]_vars

\* the first level containing sub, if any
FirstContaining(levels, sub) ==
  LET hits == {i \in 1..Len(levels) : Includes(levels[i].value, sub)}
  IN IF hits = {} THEN NoPrefix ELSE levels[Min(hits)].value

\* the default member by strict preference: "2m", else "10m", else "100m",
\* else the first entry
StrictDefault(levels) ==
  IF FirstContaining(levels, s_2m) # NoPrefix THEN FirstContaining(levels, s_2m)
  ELSE IF FirstContaining(levels, s_10m) # NoPrefix THEN FirstContaining(levels, s_10m)
  ELSE IF FirstContaining(levels, s_100m) # NoPrefix THEN FirstContaining(levels, s_100m)
  ELSE levels[1].value

\* C3: a variable change to a selector naming a level group selects the
\* group's default member by strict preference ("2m" before "10m" before
\* "100m" before the first entry); any other selector is selected itself
C3_StrictPreferenceOrder ==
  last.op = "handleVariableChange" =>
    variable = IF last.variable \in DOMAIN levelGroupsList
               THEN StrictDefault(levelGroupsList[last.variable])
               ELSE last.variable

\* the positions of a group's entries containing "10m", when every other
\* entry contains none of "2m", "10m", "100m"; empty otherwise
LoneTenMetre(levels) ==
  LET tens == {i \in 1..Len(levels) : Includes(levels[i].value, s_10m)}
  IN IF /\ Cardinality(tens) = 1
        /\ \A j \in (1..Len(levels)) \ tens :
             /\ ~Includes(levels[j].value, s_2m)
             /\ ~Includes(levels[j].value, s_100m)
     THEN tens ELSE {}

\* C4: a variable change to a group with one "10m" entry, whose other
\* entries contain none of "2m", "10m", "100m", selects the "10m" entry
\* wherever it stands in the group
C4_TenMetreDefault ==
  (/\ last.op = "handleVariableChange"
   /\ last.variable \in DOMAIN levelGroupsList
   /\ LoneTenMetre(levelGroupsList[last.variable]) # {})
  => \E i \in LoneTenMetre(levelGroupsList[last.variable]) :
       variable = levelGroupsList[last.variable][i].value

\* a variable change selected the "10m" entry of a group in which it is not
\* the first entry
C4_Witness ==
  /\ last.op = "handleVariableChange"
  /\ last.variable \in DOMAIN levelGroupsList
  /\ \E i \in LoneTenMetre(levelGroupsList[last.variable]) :
       i > 1 /\ variable = levelGroupsList[last.variable][i].value

\* C5: when the fetch of a domain change resolves with a document that has
\* the selected variable, the variable is left as it is (and so are the map
\* style and the domain set by the call)
C5_PresentVariableKept ==
  [][(last'.op = "DomainMetaResolve" /\ variable \in Range(metaJson'.variables))
       => variable' = variable /\ domain' = domain /\ mapStyle' = mapStyle]_vars

\* a domain change resolved with a document that has the variable, but not
\* as its first entry, and the variable was kept
C5_Witness ==
  /\ last.op = "DomainMetaResolve"
  /\ last.variable \in Range(metaJson.variables)
  /\ metaJson.variables[1] # last.variable
  /\ variable = last.variable
  /\ domain = last.domain

\* a domain change resolved with a document lacking the variable the call
\* had, and that variable has a group prefix
LackingPrefixed ==
  /\ last.op = "DomainMetaResolve"
  /\ last.variable # Undefined
  /\ last.variable \notin Range(metaJson.variables)
  /\ getLevelPrefix(last.variable) # NoPrefix

\* the positions of the document's entries whose own group prefix is that
\* of the call's variable
SamePrefixEntries ==
  {i \in 1..Len(metaJson.variables) :
     getLevelPrefix(metaJson.variables[i]) = getLevelPrefix(last.variable)}

\* the positions of the document's entries whose name starts with the group
\* prefix of the call's variable
PrefixedEntries ==
  {i \in 1..Len(metaJson.variables) :
     StartsWith(metaJson.variables[i], getLevelPrefix(last.variable))}

\* C6 as stated: after a domain change to a document lacking the variable,
\* the first entry whose own group prefix equals the variable's prefix is
\* selected, whenever there is one
C6_FirstEntryOfSameGroup ==
  (LackingPrefixed /\ SamePrefixEntries # {})
  => variable = metaJson.variables[Min(SamePrefixEntries)]

\* C6 as amended: after a domain change to a document lacking the variable,
\* the first entry whose name starts with the variable's group prefix is
\* selected, whenever there is one
C6_FirstEntryStartingWithPrefix ==
  (LackingPrefixed /\ PrefixedEntries # {})
  => variable = metaJson.variables[Min(PrefixedEntries)]

\* a domain change selected an entry starting with the prefix that is not
\* the document's first entry
C6_Witness ==
  /\ LackingPrefixed
  /\ PrefixedEntries # {}
  /\ Min(PrefixedEntries) > 1
  /\ variable = metaJson.variables[Min(PrefixedEntries)]

\* C7: after a domain change to a document lacking the variable, where the
\* variable has no group prefix or no entry starts with it, the document's
\* first variable is selected and the application is not in an error state
C7_FallsBackToFirstVariable ==
  (/\ last.op = "DomainMetaResolve"
   /\ last.variable # Undefined
   /\ last.variable \notin Range(metaJson.variables)
   /\ (getLevelPrefix(last.variable) = NoPrefix \/ PrefixedEntries = {}))
  => /\ Mounted
     /\ metaJson.variables # <<>>
     /\ variable = metaJson.variables[1]

\* C8: a domain change away from A and immediately back to A's original
\* metadata leaves the variable A had, when B's document has it too
C8_RoundTripRestoresVariable ==
  trail.stage = "home" => variable = trail.variable

\* a round trip came home to a document whose first entry is not the
\* variable, through a document of another domain
C8_Witness ==
  /\ trail.stage = "home"
  /\ domain = trail.domain
  /\ metaJson = trail.metaJson
  /\ metaJson.variables[1] # trail.variable
  /\ variable = trail.variable

\* the level-bearing names of the document that have the prefix p
LevelBearing(p) ==
  LET Test(n) == hasLevels(n) /\ getLevelPrefix(n) = p
  IN SelectSeq(metaJson.variables, Test)

\* the prefixes of the document's level-bearing names
PrefixesOfDocument ==
  {getLevelPrefix(n) : n \in {m \in Range(metaJson.variables) : hasLevels(m)}}
    \ {NoPrefix}

\* C9: the level-bearing names sharing a prefix form one group, keyed by the
\* prefix, in input order, and the prefix is listed exactly once in
\* variableList
C9_PrefixGroupedAndListedOnce ==
  metaJson # Null =>
    \A p \in PrefixesOfDocument :
      /\ p \in DOMAIN levelGroupsList
      /\ Values(levelGroupsList[p]) = LevelBearing(p)
      /\ Count(variableList, p) = 1

\* the names of the document that are not level-bearing
Scalars ==
  LET Test(n) == ~hasLevels(n)
  IN SelectSeq(metaJson.variables, Test)

\* C10: the names that are not level-bearing are listed verbatim in
\* variableList, in input order, and are in no level group
C10_ScalarsListedVerbatim ==
  metaJson # Null =>
    /\ IsSubsequence(Scalars, variableList)
    /\ \A p \in DOMAIN levelGroupsList :
         \A n \in Range(Scalars) : n \notin Range(Values(levelGroupsList[p]))

\* a document with a scalar name carrying a group prefix, a level-bearing
\* name of that group and a second scalar after it is classified
C10_Witness ==
  /\ metaJson # Null
  /\ Len(Scalars) >= 2
  /\ \E n \in Range(Scalars) :
       /\ getLevelPrefix(n) # NoPrefix
       /\ getLevelPrefix(n) \in DOMAIN levelGroupsList
  /\ \E i, j \in 1..Len(metaJson.variables) :
       i < j /\ hasLevels(metaJson.variables[i]) /\ ~hasLevels(metaJson.variables[j])

\* the groups of levelGroupsList that hold the name n
GroupsHolding(n) ==
  {p \in DOMAIN levelGroupsList : n \in Range(Values(levelGroupsList[p]))}

\* C11 as stated: every name of the loaded document that matches the level
\* pattern is in exactly one level group, the one keyed by its prefix
C11_EveryLevelBearingInOneGroup ==
  metaJson # Null =>
    \A n \in Range(metaJson.variables) :
      hasLevels(n) => GroupsHolding(n) = {getLevelPrefix(n)}

\* C11 as amended: every name of the loaded document that matches the level
\* pattern and has a group prefix is in exactly one level group, the one
\* keyed by its prefix, and is listed there once
C11_PrefixedLevelBearingInOneGroup ==
  metaJson # Null =>
    \A n \in Range(metaJson.variables) :
      (hasLevels(n) /\ getLevelPrefix(n) # NoPrefix)
      => /\ GroupsHolding(n) = {getLevelPrefix(n)}
         /\ Count(Values(levelGroupsList[getLevelPrefix(n)]), n) = 1

\* a document with a level-bearing name that has no prefix between two
\* level-bearing names of one group is loaded
C11_Witness ==
  /\ metaJson # Null
  /\ \E n \in Range(metaJson.variables) :
       hasLevels(n) /\ getLevelPrefix(n) = NoPrefix /\ GroupsHolding(n) = {}
  /\ \E p \in DOMAIN levelGroupsList : Len(levelGroupsList[p]) >= 2
  /\ hasLevels(metaJson.variables[1])
  /\ getLevelPrefix(metaJson.variables[1]) # NoPrefix

\* the two decimal digits of a number below 100
TwoDigits(n) == <<DigitChars[(n \div 10) + 1], DigitChars[(n % 10) + 1]>>

\* the four decimal digits of a year
FourDigits(y) == TwoDigits(y \div 100) \o TwoDigits(y % 100)

\* the endpoint each domain of the <select> is served from
EndpointOf(d) ==
  CASE d = "dwd_icon" -> servert
    [] d = "dwd_icon_d2" -> servert
    [] d = "gfs_global" -> openMeteo

\* <endpoint>/data_spatial/<domain>/<YYYY>/<MM>/<DD>/<HHMM>Z/
\* <YYYY>-<MM>-<DD>T<HHMM>.om?variable=<variable>
UrlLayout(d, v, run, time) ==
  EndpointOf(d) \o s_data_spatial \o Chars(d) \o <<"/">>
    \o FourDigits(run.year) \o <<"/">> \o TwoDigits(run.month) \o <<"/">>
    \o TwoDigits(run.day) \o <<"/">> \o TwoDigits(run.hour)
    \o TwoDigits(run.minute) \o <<"Z">> \o <<"/">>
    \o FourDigits(time.year) \o <<"-">> \o TwoDigits(time.month) \o <<"-">>
    \o TwoDigits(time.day) \o <<"T">> \o TwoDigits(time.hour)
    \o TwoDigits(time.minute) \o s_om_variable \o v

ExampleUrl ==
  <<"h", "t", "t", "p", "s", ":", "/", "/", "s", "3", ".", "s", "e", "r",
    "v", "e", "r", "t", ".", "c", "h", "/", "d", "a", "t", "a", "_", "s",
    "p", "a", "t", "i", "a", "l", "/", "d", "w", "d", "_", "i", "c", "o",
    "n", "_", "d", "2", "/", "2", "0", "2", "4", "/", "0", "5", "/", "0",
    "1", "/", "0", "6", "0", "0", "Z", "/", "2", "0", "2", "4", "-", "0",
    "5", "-", "0", "1", "T", "0", "7", "0", "0", ".", "o", "m", "?", "v",
    "a", "r", "i", "a", "b", "l", "e", "=", "t", "e", "m", "p", "e", "r",
    "a", "t", "u", "r", "e", "_", "2", "m">>

ExampleModelRun == NewDate(<<2024, 5, 1, 6, 0>>)

ExampleSelectedTime ==
  [year |-> 2024, month |-> 5, day |-> 1, hour |-> 7, minute |-> 0,
   second |-> 0, ms |-> 0]

\* C12: getOMUrl returns <endpoint>/data_spatial/<domain>/<YYYY>/<MM>/<DD>/
\* <HHMM>Z/<YYYY>-<MM>-<DD>T<HHMM>.om?variable=<variable> with every date
\* field zero-padded to two digits in UTC, for the state's domain, variable,
\* model run and display timestamp, and yields the example URL for
\* ("dwd_icon_d2", "temperature_2m", 2024-05-01T06:00Z, 2024-05-01T07:00Z)
C12_UrlLayout ==
  /\ getOMUrl("dwd_icon_d2", temperature_2m, ExampleModelRun, ExampleSelectedTime)
       = ExampleUrl
  /\ (Mounted /\ modelRun # Null)
     => getOMUrl(domain, variable, modelRun, selectedTime)
          = UrlLayout(domain, variable, modelRun, selectedTime)

\* the example's inputs are the state's, the overlay source holds the
\* example URL
C12_Witness ==
  /\ domain = "dwd_icon_d2"
  /\ variable = temperature_2m
  /\ modelRun = ExampleModelRun
  /\ selectedTime = ExampleSelectedTime
  /\ omSource = s_om_protocol \o ExampleUrl

\* the part of a URL before its first "/data_spatial/"
UriOf(url) ==
  LET at == {i \in 1..(Len(url) - Len(s_data_spatial) + 1) :
               SubSeq(url, i, i + Len(s_data_spatial) - 1) = s_data_spatial}
  IN SubSeq(url, 1, Min(at) - 1)

\* C13: the endpoint depends on the domain alone: 'https://s3.servert.ch'
\* for a domain starting with 'dwd_icon', 'https://map-tiles.open-meteo.com'
\* for any other, in the URL of every pending metadata fetch and in the
\* overlay URL, so both use the same endpoint for the same domain
C13_EndpointByDomain ==
  /\ initPc = "meta" => UriOf(pendingFetches[1]) = EndpointOf(initialDomain)
  /\ \A i \in 1..Len(inflight) :
       UriOf(inflight[i].url) = EndpointOf(inflight[i].newDomain)
  /\ modelRun # Null
     => /\ UriOf(getOMUrl(domain, variable, modelRun, selectedTime))
             = EndpointOf(domain)
        /\ UriOf(fetchMetaDataUrl(domain))
             = UriOf(getOMUrl(domain, variable, modelRun, selectedTime))

\* the metadata of dwd_icon_d2 is being fetched from s3.servert.ch while
\* the overlay source holds a URL of that domain and endpoint
C13_Witness ==
  /\ Len(inflight) = 1
  /\ inflight[1].newDomain = "dwd_icon_d2"
  /\ UriOf(inflight[1].url) = servert
  /\ omSource # NoSource
  /\ UriOf(From(omSource, Len(s_om_protocol) + 1)) = servert
  /\ inflight[1].before.domain = "gfs_global"

\* C14: driven through the controls, at most one fetch is outstanding,
\* loading is true while a metadata or style fetch is pending, the domain
\* <select> is disabled while loading, and the style fetch of the startup is
\* pending only after the metadata fetch has completed
C14_OneFetchWhileLoading ==
  /\ Len(pendingFetches) <= 1
  /\ pendingFetches # <<>> => loading
  /\ loading => ~domainSelectEnabled
  /\ getStyleUrl \in Range(pendingFetches)
     => /\ metaJson # Null
        /\ last.op = "InitMetaResolve"
        /\ inflight = <<>>

\* after the startup a domain change has its one fetch pending
C14_Witness ==
  /\ initPc = "done"
  /\ mapStyle # Null
  /\ Len(inflight) = 1
  /\ pendingFetches = <<fetchMetaDataUrl(domain)>>
  /\ loading
  /\ ~domainSelectEnabled

\* C15: when handleDomainChange is called while another call is pending and
\* every pending fetch resolves, the document, the model run and the
\* reconciled variable are afterwards those of the fetch that resolved last:
\* the document and model run it delivered, and a variable of that document
C15_LastResolvingWins ==
  trail.stage = "won"
  => /\ metaJson = last.meta
     /\ modelRun = NewDate(last.meta.reference_time)
     /\ last.meta.variables # <<>> => variable \in Range(last.meta.variables)

\* the operations that end a fetch in failure
FailureOps == {"InitMetaReject", "InitStyleReject", "DomainMetaReject"}

\* C16: when every pending fetch settles, loading = true is eventually
\* followed by loading = false, whether the fetch succeeds or fails, and a
\* failure leaves the loaded document, the model run and the variable as
\* they were
C16_NoStuckLoading ==
  /\ loading ~> ~loading
  /\ [][last'.op \in FailureOps
         => /\ ~loading'
            /\ <<metaJson, modelRun, variable>>' = <<metaJson, modelRun, variable>>]_vars

\* the URL built from the state's domain, variable, model run and display
\* timestamp, as the overlay source is given it
CurrentUrl == s_om_protocol \o getOMUrl(domain, variable, modelRun, selectedTime)

\* C17 as stated: whenever a model run is loaded and no operation is under
\* way, the overlay source has received the URL built from the current
\* domain, variable, model run and display timestamp: no change is lost
C17_SourceHoldsCurrentUrl ==
  (Mounted /\ modelRun # Null /\ ~loading) => omSource = CurrentUrl

\* C17 as amended: whenever the overlay source exists, a model run is loaded
\* and the source's URL is the one built from the current domain, variable,
\* model run and display timestamp; the source exists once the map has loaded
C17_SourceUrlIsCurrent ==
  /\ omSource # NoSource => (modelRun # Null /\ omSource = CurrentUrl)
  /\ (Mounted /\ mapRef # Null /\ mapRef.status = "loaded") => omSource # NoSource

\* the source was created by the map's 'load' and has since received the
\* URL of another domain, model run and variable
C17_Witness ==
  /\ mapRef # Null
  /\ mapRef.status = "loaded"
  /\ domain # mapRef.onLoad.domain
  /\ variable # mapRef.onLoad.variable
  /\ modelRun # mapRef.onLoad.referenceTime
  /\ last.op = "handleLevelChange"
  /\ omSource = CurrentUrl

\* days of a common year before each month
DaysBeforeMonth == <<0, 31, 59, 90, 120, 151, 181, 212, 243, 273, 304, 334>>

\* whole hours from 0001-01-01T00:00Z to the hour the instant d lies in
HoursSinceEpoch(d) ==
  LET y == d.year - 1
      days == 365 * y + (y \div 4) - (y \div 100) + (y \div 400)
                + DaysBeforeMonth[d.month]
                + (IF IsLeapYear(d.year) /\ d.month > 2 THEN 1 ELSE 0)
                + (d.day - 1)
  IN days * 24 + d.hour

\* d is an instant of the calendar
IsCalendarInstant(d) ==
  /\ d.month \in 1..12
  /\ d.day \in 1..DaysInMonth(d.year, d.month)
  /\ d.hour \in 0..23
  /\ d.minute \in 0..59
  /\ d.second \in 0..59
  /\ d.ms \in 0..999

\* C18: the display timestamp is the startup instant advanced to the next
\* whole UTC hour, with minutes, seconds and milliseconds zero, and no
\* operation changes it
C18_SelectedTimeFixed ==
  /\ [](/\ IsCalendarInstant(selectedTime)
        /\ selectedTime.minute = 0
        /\ selectedTime.second = 0
        /\ selectedTime.ms = 0
        /\ HoursSinceEpoch(selectedTime) = HoursSinceEpoch(clock) + 1)
  /\ [][selectedTime' = selectedTime]_vars

\* mounted in the last hour of a year, the application shows the first hour
\* of the next year after a domain change and a level change
C18_Witness ==
  /\ clock.month = 12
  /\ clock.day = 31
  /\ clock.hour = 23
  /\ selectedTime.year = clock.year + 1
  /\ selectedTime.month = 1
  /\ selectedTime.day = 1
  /\ selectedTime.hour = 0
  /\ domain # initialDomain
  /\ last.op = "handleLevelChange"

\* the operations that end a metadata fetch in success
ResolveOps == {"InitMetaResolve", "DomainMetaResolve"}

\* C19: the model run is present exactly when the document is and is the
\* document's reference_time; after a successful metadata fetch the document
\* is the fetched one, whole, and the variable list and the level groups are
\* computed from its list alone
C19_DocumentReplacedWholesale ==
  /\ (metaJson = Null) <=> (modelRun = Null)
  /\ metaJson # Null
     => /\ <<modelRun.year, modelRun.month, modelRun.day, modelRun.hour,
             modelRun.minute>> = metaJson.reference_time
        /\ modelRun.second = 0
        /\ modelRun.ms = 0
  /\ last.op \in ResolveOps
     => /\ metaJson = last.meta
        /\ variableList = variableListLoop(last.meta.variables, <<>>)
        /\ levelGroupsList = levelGroupsLoop(last.meta.variables, NoGroups)

\* a domain change has replaced the startup's document by one with another
\* reference_time and two variables
C19_Witness ==
  /\ last.op = "DomainMetaResolve"
  /\ mapStyle # Null
  /\ domain # initialDomain
  /\ Len(metaJson.variables) = 2
  /\ metaJson.reference_time = <<2024, 5, 1, 12, 0>>
  /\ modelRun = NewDate(<<2024, 5, 1, 12, 0>>)

\* C20: handleLevelChange(newLevel) sets the variable to newLevel, whether
\* or not the document or a level group lists it, and leaves the domain, the
\* document, the model run, loading and the display timestamp as they were;
\* it issues no fetch
C20_LevelChangeSetsVariableOnly ==
  [][last'.op = "handleLevelChange"
       => /\ variable' = last'.variable
          /\ UNCHANGED <<domain, metaJson, modelRun, loading, selectedTime, mapStyle>>
          /\ pendingFetches' = pendingFetches]_vars

\* handleLevelChange was called with a name the loaded document lacks while
\* a fetch was pending, and the variable is that name
C20_Witness ==
  /\ last.op = "handleLevelChange"
  /\ metaJson # Null
  /\ metaJson.variables # <<>>
  /\ variable \notin Range(metaJson.variables)
  /\ variable = last.variable
  /\ variable # initialVariable
  /\ Len(pendingFetches) = 1
  /\ loading

\* the names of the document that match the level pattern and have no prefix
Unprefixed ==
  {n \in Range(metaJson.variables) : hasLevels(n) /\ getLevelPrefix(n) = NoPrefix}

\* C21: a name that matches the level pattern and has no prefix is neither
\* in variableList nor in any level group, and the render raises no error
C21_UnprefixedLevelNameDropped ==
  metaJson # Null =>
    \A n \in Unprefixed :
      /\ n \notin Range(variableList)
      /\ GroupsHolding(n) = {}
      /\ Mounted

\* a document with such a name between a level-bearing name with a prefix
\* and a scalar is classified: the other two are listed, the group is built
C21_Witness ==
  /\ metaJson # Null
  /\ Len(metaJson.variables) = 3
  /\ metaJson.variables[2] \in Unprefixed
  /\ Len(variableList) = 2
  /\ DOMAIN levelGroupsList # {}
  /\ ~hasLevels(metaJson.variables[3])
  /\ Mounted

\* the metadata requests among the pending ones
MetaFetches(fetches) ==
  LET Test(url) == url # getStyleUrl
  IN SelectSeq(fetches, Test)

\* <endpoint>/data_spatial/<domain>/latest.json
LatestJsonOf(d) == EndpointOf(d) \o s_data_spatial \o Chars(d) \o s_latest_json

\* C22: a handleDomainChange call issues exactly one metadata fetch, for the
\* domain asked for; no other operation issues a metadata fetch, a failed
\* fetch leaves one request fewer, and the mount issues the one initial load
C22_OneFetchPerDomainChange ==
  /\ [](last.op = "mount" => pendingFetches = <<LatestJsonOf(initialDomain)>>)
  /\ [][/\ last'.op = "handleDomainChange"
           => pendingFetches' = Append(pendingFetches, LatestJsonOf(last'.domain))
        /\ last'.op # "handleDomainChange"
           => Len(MetaFetches(pendingFetches')) <= Len(MetaFetches(pendingFetches))
        /\ last'.op \in FailureOps
           => Len(pendingFetches') = Len(pendingFetches) - 1]_vars

\* a domain change to another endpoint failed and nothing is pending
C22_Witness ==
  /\ last.op = "DomainMetaReject"
  /\ last.domain = "gfs_global"
  /\ domain = "gfs_global"
  /\ pendingFetches = <<>>
  /\ metaJson # Null
  /\ ~loading

\* the handlers registered for a scheme
HandlersOf(scheme) ==
  {i \in 1..Len(registry.protocols) : registry.protocols[i].scheme = scheme}

C24_CapturedVariableIsCurrent ==
  /\ [](inflight # <<>> =>
          /\ loading
          /\ ~variableSelectEnabled
          /\ ~levelSelectEnabled
          /\ \A i \in 1..Len(inflight) : inflight[i].variable = variable)
  /\ [][last'.op = "DomainMetaResolve" => last'.variable = variable]_vars

\* a handleDomainChange resolved whose captured variable the user had
\* selected, and the document of the new domain lists it
C24_Witness ==
  /\ last.op = "DomainMetaResolve"
  /\ last.variable # initialVariable
  /\ last.variable \in Range(last.meta.variables)
  /\ variable = last.variable
  /\ domain # initialDomain
  /\ inflight = <<>>

\* the overlay URL of a domain, built from the document the application
\* holds
UrlFromDocument(d) ==
  s_om_protocol \o getOMUrl(d, variable, NewDate(metaJson.reference_time), selectedTime)

\* C25: the overlay URL in effect names the domain whose fetch delivered
\* the document, with that document's model run
C25_UrlOfOneDocument ==
  omSource # NoSource =>
    /\ trail.stage = "fetched"
    /\ omSource = UrlFromDocument(trail.domain)

\* the case of C25 between handleDomainChange and the resolution of its
\* fetch: the overlay URL does not name the new domain
C25_PendingUrlNotOfNewDomain ==
  omSource # NoSource =>
    \A i \in 1..Len(inflight) : omSource # UrlFromDocument(inflight[i].newDomain)

====
